---- MODULE Spec2Model ----
(***************************************************************************)
(* A model of the kayako API wrapper: the KayakoAPI request layer          *)
(* (signing, sanitizing, encoding, dispatch) and the persistence methods   *)
(* of the entity classes Department, User, UserGroup, UserOrganization,    *)
(* TicketStatus and TicketPriority.                                        *)
(*                                                                         *)
(* Python values are tagged records, text is a TLA+ string handled one     *)
(* character at a time, an XML element is a record [tag, text, kids].      *)
(***************************************************************************)
EXTENDS Integers, Sequences, FiniteSets, TLC

VARIABLES api, obj, lifecycle, last, sent, queries

vars == <<api, obj, lifecycle, last, sent, queries>>

(***************************************************************************)
(* Python values                                                           *)
(***************************************************************************)
UnsetParameter == [k |-> "unset"]
None == [k |-> "none"]
NoAttribute == [k |-> "noattr"]
IntV(i) == [k |-> "int", i |-> i]
StrV(s) == [k |-> "str", s |-> s]
BoolV(b) == [k |-> "bool", b |-> b]
ListV(l) == [k |-> "list", l |-> l]
\* a datetime, by its Unix timestamp
DateV(t) == [k |-> "date", t |-> t]
\* kayako.core.lib.FOREVER
FOREVER == [k |-> "forever"]

\* the elements of a sequence, as a set
Range(s) == {s[i] : i \in 1..Len(s)}

\* the position of the first pair of an ordered mapping with the key, or 0
RECURSIVE IndexOfKey(_, _, _)
IndexOfKey(m, key, i) ==
    IF i > Len(m) THEN 0
    ELSE IF m[i][1] = key THEN i ELSE IndexOfKey(m, key, i + 1)

\* dict[key] = value on an insertion-ordered dict
DictSet(m, key, value) ==
    LET i == IndexOfKey(m, key, 1)
    IN  IF i = 0 THEN Append(m, <<key, value>>)
        ELSE [m EXCEPT ![i] = <<key, value>>]

(***************************************************************************)
(* Text                                                                    *)
(***************************************************************************)
Digits == <<"0", "1", "2", "3", "4", "5", "6", "7", "8", "9">>

\* str(n) of a non-negative integer
RECURSIVE IntToStr(_)
IntToStr(n) ==
    IF n < 10 THEN Digits[n + 1]
    ELSE IntToStr(n \div 10) \o Digits[(n % 10) + 1]

DigitValue(c) == CHOOSE d \in 0..9 : Digits[d + 1] = c

IsDigits(s) == Len(s) > 0 /\ \A i \in 1..Len(s) : \E d \in 1..10 : Digits[d] = SubSeq(s, i, i)

\* int(s) of a decimal string
RECURSIVE StrToInt(_)
StrToInt(s) ==
    IF Len(s) = 1 THEN DigitValue(s)
    ELSE 10 * StrToInt(SubSeq(s, 1, Len(s) - 1)) + DigitValue(SubSeq(s, Len(s), Len(s)))

\* the characters urllib.parse.quote leaves alone (its default safe is "/")
QuoteSafe ==
    { "a", "b", "c", "d", "e", "f", "g", "h", "i", "j", "k", "l", "m",
      "n", "o", "p", "q", "r", "s", "t", "u", "v", "w", "x", "y", "z",
      "A", "B", "C", "D", "E", "F", "G", "H", "I", "J", "K", "L", "M",
      "N", "O", "P", "Q", "R", "S", "T", "U", "V", "W", "X", "Y", "Z",
      "0", "1", "2", "3", "4", "5", "6", "7", "8", "9",
      "_", ".", "-", "~", "/" }

PercentCode(c) ==
    CASE c = " " -> "%20"
      [] c = "+" -> "%2B"
      [] c = "=" -> "%3D"
      [] c = "&" -> "%26"
      [] c = "@" -> "%40"
      [] c = "?" -> "%3F"
      [] c = ":" -> "%3A"
      [] c = "[" -> "%5B"
      [] c = "]" -> "%5D"
      [] c = "(" -> "%28"
      [] c = ")" -> "%29"
      [] c = "%" -> "%25"
      [] OTHER -> "%3F"

\* urllib.parse.quote(s)
RECURSIVE quote(_)
quote(s) ==
    IF s = "" THEN ""
    ELSE (IF Head(s) \in QuoteSafe THEN Head(s) ELSE PercentCode(Head(s)))
         \o quote(Tail(s))

(***************************************************************************)
(* Bounds of the model                                                     *)
(***************************************************************************)
\* how many different identifiers the server hands out (FirstId + 1 ..)
MaxIds == 2
\* how many different salts random.getrandbits(32) is seen to draw
MaxSalts == 2
\* the longest parameter mapping a direct _request call is given
MaxParams == 2
\* how many class-level queries one client is seen to make in a row
MaxCalls == 2

FirstId == 84
ServerIds == (FirstId + 1)..(FirstId + MaxIds)

(***************************************************************************)
(* The entity classes: controller, XML tag and parameter lists             *)
(***************************************************************************)
Classes ==
    {"Department", "User", "UserGroup", "UserOrganization",
     "TicketStatus", "TicketPriority"}

controller(cls) ==
    CASE cls = "Department" -> "/Base/Department"
      [] cls = "User" -> "/Base/User"
      [] cls = "UserGroup" -> "/Base/UserGroup"
      [] cls = "UserOrganization" -> "/Base/UserOrganization"
      [] cls = "TicketStatus" -> "/Tickets/TicketStatus"
      [] cls = "TicketPriority" -> "/Tickets/TicketPriority"

\* the tag add, save, get and get_all look for in the response
NodeTag(cls) ==
    CASE cls = "Department" -> "department"
      [] cls = "User" -> "user"
      [] cls = "UserGroup" -> "usergroup"
      [] cls = "UserOrganization" -> "userorganization"
      [] cls = "TicketStatus" -> "ticketstatus"
      [] cls = "TicketPriority" -> "ticketpriority"

Parameters(cls) ==
    CASE cls = "Department" ->
           <<"id", "title", "type", "module", "displayorder",
             "parentdepartmentid", "uservisibilitycustom", "usergroupid">>
      [] cls = "User" ->
           <<"id", "fullname", "usergroupid", "email", "password",
             "userorganizationid", "salutation", "designation", "phone",
             "isenabled", "userrole", "timezone", "enabledst", "slaplanid",
             "slaplanexpiry", "userexpiry", "dateline", "lastvisit",
             "sendwelcomeemail">>
      [] cls = "UserGroup" -> <<"id", "title", "grouptype", "ismaster">>
      [] cls = "UserOrganization" ->
           <<"id", "name", "organizationtype", "address", "city", "state",
             "postalcode", "country", "phone", "fax", "website", "slaplanid",
             "slaplanexpiry", "dateline", "lastupdate">>
      [] cls = "TicketStatus" ->
           <<"id", "title", "type", "displayorder", "statuscolor">>
      [] cls = "TicketPriority" -> <<"id", "title", "type">>

RequiredAddParameters(cls) ==
    CASE cls = "Department" -> <<"title", "module", "type">>
      [] cls = "User" -> <<"fullname", "usergroupid", "password", "email">>
      [] cls = "UserGroup" -> <<"title", "grouptype">>
      [] cls = "UserOrganization" -> <<"name", "organizationtype">>
      [] cls = "TicketStatus" -> <<"title", "type">>
      [] cls = "TicketPriority" -> <<"title", "type">>

AddParameters(cls) ==
    CASE cls = "Department" ->
           <<"title", "module", "type", "displayorder", "parentdepartmentid",
             "uservisibilitycustom", "usergroupid">>
      [] cls = "User" ->
           <<"fullname", "usergroupid", "password", "email",
             "userorganizationid", "salutation", "designation", "phone",
             "isenabled", "userrole", "timezone", "enabledst", "slaplanid",
             "slaplanexpiry", "userexpiry", "sendwelcomeemail">>
      [] cls = "UserGroup" -> <<"title", "grouptype">>
      [] cls = "UserOrganization" ->
           <<"name", "organizationtype", "address", "city", "state",
             "postalcode", "country", "phone", "fax", "website", "slaplanid",
             "slaplanexpiry">>
      [] cls = "TicketStatus" -> <<"title", "type", "displayorder", "statuscolor">>
      [] cls = "TicketPriority" -> <<"title", "type">>

RequiredSaveParameters(cls) ==
    CASE cls = "Department" -> <<"title">>
      [] cls = "User" -> <<"fullname">>
      [] cls = "UserGroup" -> <<"title">>
      [] cls = "UserOrganization" -> <<"name">>
      [] cls = "TicketStatus" -> <<"title">>
      [] cls = "TicketPriority" -> <<"title">>

SaveParameters(cls) ==
    CASE cls = "Department" ->
           <<"title", "type", "displayorder", "parentdepartmentid",
             "uservisibilitycustom", "usergroupid">>
      [] cls = "User" ->
           <<"fullname", "usergroupid", "email", "userorganizationid",
             "salutation", "designation", "phone", "isenabled", "userrole",
             "timezone", "enabledst", "slaplanid", "slaplanexpiry",
             "userexpiry">>
      [] cls = "UserGroup" -> <<"title">>
      [] cls = "UserOrganization" ->
           <<"name", "organizationtype", "address", "city", "state",
             "postalcode", "country", "phone", "fax", "website", "slaplanid",
             "slaplanexpiry">>
      [] cls = "TicketStatus" -> <<"title", "type", "displayorder", "statuscolor">>
      [] cls = "TicketPriority" -> <<"title", "type">>

\* attributes the methods of a class assign that its __parameters__ do not
\* declare (User._update_from_response assigns self.emails)
UndeclaredAttributes(cls) == IF cls = "User" THEN {"emails"} ELSE {}


(***************************************************************************)
(* KayakoAPI: the communication layer                                      *)
(***************************************************************************)
API_URL == "http://h/api"
API_KEY == "k-1"
SECRET_KEY == "s3"

\* no client: what is left of a construction that raised
NoClient == [api_url |-> "", api_key |-> "", secret_key |-> ""]

\* not value, for the values a credential is given as: None and "" are false
Not(value) == value = None \/ value = StrV("")

\* a constructor that keeps the key as the secret and the secret as the key
KayakoAPI_crossed(api_url, api_key, secret_key) ==
    IF Not(api_url) \/ Not(api_key) \/ Not(secret_key)
    THEN [raised |-> "KayakoInitializationError", self |-> NoClient]
    ELSE [raised |-> "none",
          self |-> [api_url |-> api_url.s, api_key |-> secret_key.s,
                    secret_key |-> api_key.s]]

\* KayakoAPI(api_url, api_key, secret_key)
KayakoAPI(api_url, api_key, secret_key) ==
    IF Not(api_url) \/ Not(api_key) \/ Not(secret_key)
    THEN [raised |-> "KayakoInitializationError", self |-> NoClient]
    ELSE [raised |-> "none",
          self |-> [api_url |-> api_url.s, api_key |-> api_key.s,
                    secret_key |-> secret_key.s]]

\* str(parameter)
Str(v) ==
    CASE v.k = "str" -> v.s
      [] v.k = "int" -> IntToStr(v.i)
      [] v.k = "bool" -> IF v.b THEN "True" ELSE "False"
      [] v.k = "none" -> "None"
      [] v.k = "unset" -> "UnsetParameter()"
      [] v.k = "forever" -> "FOREVER"
      [] v.k = "date" -> "datetime(" \o IntToStr(v.t) \o ")"
      [] OTHER -> "[...]"

RECURSIVE _sanitize_parameter(_)
RECURSIVE SanitizeItems(_)
\* a list comprehension without its condition: every item is kept
SanitizeItems_unconditional(items) ==
    [i \in 1..Len(items) |-> _sanitize_parameter(items[i])]

\* a sanitizer that is str() for every parameter
sanitize_by_str(parameter) == StrV(Str(parameter))

\* the list comprehension of _sanitize_parameter
SanitizeItems(items) ==
    IF items = <<>> THEN <<>>
    ELSE IF Head(items) \in {StrV(""), None}
         THEN SanitizeItems(Tail(items))
         ELSE <<_sanitize_parameter(Head(items))>> \o SanitizeItems(Tail(items))

_sanitize_parameter(parameter) ==
    CASE parameter.k = "none" -> StrV("")
      [] parameter.k = "forever" -> StrV("0")
      [] parameter.k = "bool" -> IF parameter.b THEN StrV("1") ELSE StrV("0")
      [] parameter.k = "date" -> StrV(IntToStr(parameter.t))
      [] parameter.k = "list" -> ListV(SanitizeItems(parameter.l))
      [] OTHER -> StrV(Str(parameter))

\* the parameters handed on as they are given, not made strings
parameters_as_given(parameters) == parameters

\* parameters are insertion-ordered mappings: sequences of <<key, value>>
_sanitize_parameters(parameters) ==
    [i \in 1..Len(parameters) |->
        <<parameters[i][1], _sanitize_parameter(parameters[i][2])>>]

\* what _post_data has built so far: data is None until the first item
PostState(data, raised) == [data |-> data, raised |-> raised]

\* an encoder that puts "&" before every item, the first one too
PostJoin_leading(st, item) ==
    IF st.data = None THEN PostState(StrV("&" \o item), st.raised)
    ELSE PostState(StrV(st.data.s \o "&" \o item), st.raised)

\* "%s&..." % data, or the first item alone
PostJoin(st, item) ==
    IF st.data = None THEN PostState(StrV(item), st.raised)
    ELSE PostState(StrV(st.data.s \o "&" \o item), st.raised)

\* urllib.parse.quote raises TypeError on anything but a string
RECURSIVE PostSubValues(_, _, _)
PostSubValues(st, key, subs) ==
    IF subs = <<>> \/ st.raised # "none" THEN st
    ELSE IF Head(subs).k # "str"
         THEN PostState(st.data, "TypeError")
         ELSE PostSubValues(PostJoin(st, key \o "[]=" \o quote(Head(subs).s)),
                            key, Tail(subs))

RECURSIVE PostItems(_, _)
PostItems(st, items) ==
    IF items = <<>> \/ st.raised # "none" THEN st
    ELSE LET key == Head(items)[1]
             value == Head(items)[2]
         IN  IF value.k = "list"
             THEN IF Len(value.l) > 0
                  THEN PostItems(PostSubValues(st, key, value.l), Tail(items))
                  ELSE PostItems(PostJoin(st, key \o "[]="), Tail(items))
             ELSE IF value.k # "str"
                  THEN PostState(st.data, "TypeError")
                  ELSE PostItems(PostJoin(st, key \o "=" \o quote(value.s)),
                                 Tail(items))

\* [data |-> None or the application/x-www-form-urlencoded text, raised]
_post_data(parameters) == PostItems(PostState(None, "none"), parameters)

\* base64(HMAC-SHA256(key, msg)): a function of the key and the message whose
\* value carries the base64 characters "+", "/" and "="
HmacB64(key, msg) == key \o "+" \o msg \o "/="

\* A 32-bit draw is kept as its decimal halves, n = hi * 100000 + lo, so that
\* 2^32 - 1 = 42949 * 100000 + 67295 stays within the checker's integers.
Draw(hi, lo) == [hi |-> hi, lo |-> lo]

\* the values of 0 .. 2^32 - 1
IsBits32(n) ==
    /\ n.hi \in 0..42949 /\ n.lo \in 0..99999
    /\ (n.hi = 42949 => n.lo <= 67295)

\* str(n) of a draw
DrawToStr(n) ==
    IF n.hi = 0 THEN IntToStr(n.lo)
    ELSE LET low == IntToStr(n.lo)
         IN  IntToStr(n.hi) \o SubSeq("00000", 1, 5 - Len(low)) \o low

\* the values random.getrandbits(32) is seen to draw: 0 and the largest ones
SaltDraws == {Draw(0, 0)} \cup {Draw(42949, 67296 - i) : i \in 1..MaxSalts}

\* _generate_signature with random.getrandbits(32) drawing n
_generate_signature(n) ==
    LET salt == DrawToStr(n)
    IN  [salt |-> salt, b64signature |-> HmacB64(api.secret_key, salt)]

(***************************************************************************)
(* XML and the transport                                                   *)
(***************************************************************************)
Element(tag, text, kids) == [tag |-> tag, text |-> text, kids |-> kids]
NoNode == Element("", "", <<>>)

\* a find that also matches the node it is called on
find_or_self(node, tag) ==
    LET found == SelectSeq(node.kids, LAMBDA kid : kid.tag = tag)
    IN  IF node.tag = tag THEN node
        ELSE IF found = <<>> THEN NoNode ELSE found[1]

\* node.find(tag): the first child with the tag, or None
RECURSIVE find(_, _)
find(node, tag) ==
    IF node.kids = <<>> THEN NoNode
    ELSE IF Head(node.kids).tag = tag THEN Head(node.kids)
         ELSE find([node EXCEPT !.kids = Tail(node.kids)], tag)

\* node.findall(tag): the children with the tag, in document order
findall(node, tag) == SelectSeq(node.kids, LAMBDA kid : kid.tag = tag)

\* what self.http.request does: it returns a response with a status and a
\* body, or raises a urllib3.exceptions.HTTPError (connection failure)
HttpResponse(status, wellformed, root) ==
    [kind |-> "response", status |-> status, wellformed |-> wellformed, root |-> root]
HttpFailure == [kind |-> "HTTPError", status |-> 0, wellformed |-> FALSE, root |-> NoNode]
NoResponse == [kind |-> "none", status |-> 0, wellformed |-> FALSE, root |-> NoNode]
\* a response with a status that is not 2xx, whose body is an error document
HttpRefusal == HttpResponse(500, TRUE, Element("error", "Internal Server Error", <<>>))

\* the body argument of self.http.request(method, url, headers=...): the call
\* passes the url and the headers, and no body
TransportBody(data) == None

\* the request handed to the transport
HttpRequest(method, url, data) ==
    [method |-> method, url |-> url, body |-> TransportBody(data),
     contentlength |-> IF data = None \/ data.s = "" THEN 0 ELSE Len(data.s)]

\* the arguments of a _request call
Call(ctl, method, parameters) ==
    [ctl |-> ctl, method |-> method, parameters |-> parameters]
NoCall == Call("", "", <<>>)

\* a _request call that hands a failed request to the transport once more
RequestResult_retried(raised, response, calls, sig, data, call) ==
    [raised |-> raised, response |-> response,
     calls |-> IF raised # "none" THEN calls \o calls ELSE calls,
     salt |-> sig.salt, signature |-> sig.b64signature, data |-> data,
     call |-> call]

\* what a _request call comes to: the error raised, the response returned,
\* the requests handed to the transport, and the salt, signature and data
\* it computed
RequestResult(raised, response, calls, sig, data, call) ==
    [raised |-> raised, response |-> response, calls |-> calls,
     salt |-> sig.salt, signature |-> sig.b64signature, data |-> data,
     call |-> call]

\* the except clauses of _request: the handler of urllib3's HTTPError formats
\* error.read(), which that exception does not have
TransportRaises(t) == IF t.kind = "HTTPError" THEN "AttributeError" ELSE "none"

\* a _request that hands whatever method it is given to the transport
request_any_method(ctl, method, parameters, n, t) ==
    LET sig == _generate_signature(n)
        url == api.api_url \o "?e=" \o quote(ctl)
    IN  RequestResult(TransportRaises(t),
                      IF TransportRaises(t) # "none" THEN NoResponse ELSE t,
                      <<HttpRequest(method, url, None)>>, sig, None,
                      Call(ctl, method, parameters))

\* _request(controller, method, **parameters), where random.getrandbits draws
\* n and the transport answers t
_request(ctl, method, parameters, n, t) ==
    LET sig == _generate_signature(n)
        url_get == api.api_url \o "?e=" \o quote(ctl) \o "&apikey=" \o api.api_key
                   \o "&salt=" \o sig.salt \o "&signature=" \o sig.b64signature
        withauth == DictSet(DictSet(DictSet(parameters,
                        "apikey", StrV(api.api_key)),
                        "salt", StrV(sig.salt)),
                        "signature", StrV(sig.b64signature))
        posted == CASE method = "GET" ->
                         IF parameters # <<>>
                         THEN _post_data(_sanitize_parameters(parameters))
                         ELSE PostState(None, "none")
                    [] method \in {"POST", "PUT"} ->
                         _post_data(_sanitize_parameters(withauth))
                    [] OTHER -> _post_data(_sanitize_parameters(parameters))
        data == posted.data
        url == CASE method = "GET" ->
                      IF data # None /\ data.s # ""
                      THEN url_get \o "&" \o data.s ELSE url_get
                 [] method \in {"POST", "PUT"} -> api.api_url \o "?e=" \o quote(ctl)
                 [] OTHER -> url_get
        call == Call(ctl, method, parameters)
    IN  IF method \notin {"GET", "POST", "PUT", "DELETE"}
        THEN RequestResult("KayakoRequestError", NoResponse, <<>>, sig, None, call)
        ELSE IF posted.raised # "none"
        THEN RequestResult(posted.raised, NoResponse, <<>>, sig, None, call)
        ELSE IF TransportRaises(t) # "none"
        THEN RequestResult(TransportRaises(t), NoResponse,
                           <<HttpRequest(method, url, data)>>, sig, data, call)
        ELSE RequestResult("none", t, <<HttpRequest(method, url, data)>>, sig, data, call)

(***************************************************************************)
(* KayakoObject: the entity base (kayako.core.object)                      *)
(***************************************************************************)
NoObject == [cls |-> "none", attrs |-> <<>>]

Attributes(cls) == Range(Parameters(cls)) \cup UndeclaredAttributes(cls)

\* KayakoObject(api, **parameters): every declared parameter not given is
\* UnsetParameter; a keyword that is no declared parameter is refused
UnknownKeywords(cls, kwargs) ==
    {i \in 1..Len(kwargs) : kwargs[i][1] \notin Range(Parameters(cls))}

NewObject(cls, kwargs) ==
    [cls |-> cls,
     attrs |-> [a \in Attributes(cls) |->
                  LET i == IndexOfKey(kwargs, a, 1)
                  IN  IF i # 0 THEN kwargs[i][2]
                      ELSE IF a \in UndeclaredAttributes(cls) THEN NoAttribute
                      ELSE UnsetParameter]]

IsSet(v) == v \notin {UnsetParameter, None}

\* the parameters of an operation: its allowed fields that are populated
RECURSIVE PopulatedOf(_, _)
PopulatedOf(self, names) ==
    IF names = <<>> THEN <<>>
    ELSE (IF self.attrs[Head(names)] # UnsetParameter
          THEN <<(<<Head(names), self.attrs[Head(names)]>>)>> ELSE <<>>)
         \o PopulatedOf(self, Tail(names))

NoSignature == [salt |-> "", b64signature |-> ""]
Refused ==
    RequestResult("KayakoRequestError", NoResponse, <<>>, NoSignature, None, NoCall)

\* KayakoObject._add(controller)
_add(self, ctl, n, t) ==
    IF AddParameters(self.cls) = <<>> THEN Refused
    ELSE IF \E r \in Range(RequiredAddParameters(self.cls)) : ~IsSet(self.attrs[r])
    THEN Refused
    ELSE _request(ctl, "POST", PopulatedOf(self, AddParameters(self.cls)), n, t)

\* KayakoObject._save(controller)
_save(self, ctl, n, t) ==
    IF SaveParameters(self.cls) = <<>> THEN Refused
    ELSE IF ~IsSet(self.attrs["id"]) THEN Refused
    ELSE IF \E r \in Range(RequiredSaveParameters(self.cls)) : ~IsSet(self.attrs[r])
    THEN Refused
    ELSE _request(ctl, "PUT", PopulatedOf(self, SaveParameters(self.cls)), n, t)

\* KayakoObject._delete(controller): the request, and the instance after it
_delete(self, ctl, n, t) ==
    LET r == IF ~IsSet(self.attrs["id"]) THEN Refused
             ELSE _request(ctl, "DELETE", <<>>, n, t)
    IN  [result |-> r,
         self |-> IF r.raised = "none"
                  THEN [self EXCEPT !.attrs["id"] = UnsetParameter] ELSE self]

Parsed(raised, value) == [raised |-> raised, value |-> value]

Missing(node) == node = NoNode \/ node.text = ""

\* _get_int(node, required)
_get_int(node, required) ==
    IF Missing(node)
    THEN Parsed(IF required THEN "KayakoResponseError" ELSE "none", None)
    ELSE IF ~IsDigits(node.text) THEN Parsed("ValueError", None)
    ELSE Parsed("none", IntV(StrToInt(node.text)))

\* _get_string(node, required)
_get_string(node, required) ==
    IF Missing(node)
    THEN Parsed(IF required THEN "KayakoResponseError" ELSE "none", None)
    ELSE Parsed("none", StrV(node.text))

\* _get_boolean(node, required): the wire carries "1" and "0"
_get_boolean(node, required) ==
    IF Missing(node)
    THEN Parsed(IF required THEN "KayakoResponseError" ELSE "none", None)
    ELSE IF node.text \notin {"0", "1"} THEN Parsed("ValueError", None)
    ELSE Parsed("none", BoolV(node.text = "1"))

\* _get_date(node, required): the wire carries a Unix timestamp
_get_date(node, required) ==
    IF Missing(node)
    THEN Parsed(IF required THEN "KayakoResponseError" ELSE "none", None)
    ELSE IF ~IsDigits(node.text) THEN Parsed("ValueError", None)
    ELSE Parsed("none", DateV(StrToInt(node.text)))

\* [helper(node) for node in nodes]: the values, or the first error raised
RECURSIVE GetEach(_, _, _)
GetEach(nodes, kind, acc) ==
    IF nodes = <<>> THEN Parsed("none", ListV(acc))
    ELSE LET p == IF kind = "int" THEN _get_int(Head(nodes), TRUE)
                  ELSE _get_string(Head(nodes), TRUE)
         IN  IF p.raised # "none" THEN Parsed(p.raised, None)
             ELSE GetEach(Tail(nodes), kind, Append(acc, p.value))


(***************************************************************************)
(* The entity classes: parsing a response node                             *)
(***************************************************************************)
Step(kind, name, required) == [kind |-> kind, name |-> name, required |-> required]

EachStep(kind, names, required) ==
    [i \in 1..Len(names) |-> Step(kind, names[i], required)]

\* the statements of _update_from_response, in order: the attribute assigned,
\* the helper that reads it and the helper's required flag
UpdateSteps(cls) ==
    CASE cls = "Department" ->
           <<Step("usergroups", "usergroupid", TRUE)>>
           \o EachStep("int", <<"id", "displayorder", "parentdepartmentid">>, FALSE)
           \o EachStep("str", <<"title", "type", "module">>, TRUE)
           \o EachStep("bool", <<"uservisibilitycustom">>, FALSE)
      [] cls = "User" ->
           <<Step("emails", "emails", TRUE)>>
           \o EachStep("int", <<"id", "usergroupid", "userorganizationid",
                                "slaplanid">>, FALSE)
           \o EachStep("str", <<"fullname", "salutation", "designation", "phone",
                                "userrole", "timezone">>, TRUE)
           \o EachStep("bool", <<"isenabled", "enabledst">>, FALSE)
           \o EachStep("date", <<"slaplanexpiry", "userexpiry", "dateline",
                                 "lastvisit">>, TRUE)
      [] cls = "UserGroup" ->
           EachStep("int", <<"id">>, FALSE)
           \o EachStep("str", <<"title", "grouptype">>, TRUE)
           \o EachStep("bool", <<"ismaster">>, FALSE)
      [] cls = "UserOrganization" ->
           EachStep("int", <<"id", "slaplanid">>, FALSE)
           \o EachStep("str", <<"name", "organizationtype", "address", "city",
                                "state", "postalcode", "country", "phone", "fax",
                                "website">>, TRUE)
           \o EachStep("date", <<"dateline", "lastupdate", "slaplanexpiry">>, FALSE)
      [] cls = "TicketStatus" ->
           EachStep("int", <<"id", "displayorder">>, FALSE)
           \o EachStep("str", <<"title", "type", "statuscolor">>, TRUE)
      [] cls = "TicketPriority" ->
           EachStep("int", <<"id">>, FALSE)
           \o EachStep("str", <<"title", "type">>, TRUE)

\* the keyword arguments _parse_<class> builds, in evaluation order
ParseSteps(cls) ==
    CASE cls = "Department" ->
           <<Step("usergroups", "usergroupid", TRUE)>>
           \o <<Step("int", "id", TRUE), Step("str", "title", TRUE),
                Step("str", "type", TRUE), Step("str", "module", TRUE),
                Step("int", "displayorder", TRUE),
                Step("int", "parentdepartmentid", FALSE),
                Step("bool", "uservisibilitycustom", TRUE)>>
      [] cls = "User" ->
           <<Step("emails", "email", TRUE)>>
           \o <<Step("int", "id", TRUE), Step("str", "fullname", TRUE),
                Step("int", "usergroupid", TRUE),
                Step("int", "userorganizationid", FALSE),
                Step("str", "salutation", TRUE), Step("str", "designation", TRUE),
                Step("str", "phone", TRUE), Step("bool", "isenabled", TRUE),
                Step("str", "userrole", TRUE), Step("str", "timezone", TRUE),
                Step("bool", "enabledst", TRUE), Step("int", "slaplanid", TRUE),
                Step("date", "slaplanexpiry", TRUE), Step("date", "userexpiry", TRUE),
                Step("date", "dateline", TRUE), Step("date", "lastvisit", TRUE)>>
      [] cls = "UserGroup" ->
           <<Step("int", "id", TRUE), Step("str", "title", TRUE),
             Step("str", "grouptype", TRUE), Step("bool", "ismaster", TRUE)>>
      [] cls = "UserOrganization" ->
           <<Step("int", "id", TRUE)>>
           \o EachStep("str", <<"name", "organizationtype", "address", "city",
                                "state", "postalcode", "country", "phone", "fax",
                                "website">>, TRUE)
           \o <<Step("date", "dateline", TRUE), Step("date", "lastupdate", TRUE),
                Step("int", "slaplanid", TRUE), Step("date", "slaplanexpiry", TRUE)>>
      [] cls = "TicketStatus" ->
           <<Step("int", "id", TRUE), Step("str", "title", TRUE),
             Step("str", "type", TRUE), Step("int", "displayorder", TRUE),
             Step("str", "statuscolor", TRUE)>>
      [] cls = "TicketPriority" ->
           <<Step("int", "id", TRUE), Step("str", "title", TRUE),
             Step("str", "type", TRUE)>>

\* the value one step reads from the node: [found, raised, value]
ReadStep(node, step) ==
    CASE step.kind = "usergroups" ->
           LET g == find(node, "usergroups")
               p == GetEach(findall(g, "id"), "int", <<>>)
           IN  IF g = NoNode THEN [found |-> FALSE, raised |-> "none", value |-> ListV(<<>>)]
               ELSE [found |-> TRUE, raised |-> p.raised, value |-> p.value]
      [] step.kind = "emails" ->
           LET p == GetEach(findall(node, "email"), "str", <<>>)
           IN  [found |-> TRUE, raised |-> p.raised, value |-> p.value]
      [] OTHER ->
           LET nd == find(node, step.name)
               p == CASE step.kind = "int" -> _get_int(nd, step.required)
                      [] step.kind = "str" -> _get_string(nd, step.required)
                      [] step.kind = "bool" -> _get_boolean(nd, step.required)
                      [] OTHER -> _get_date(nd, step.required)
           IN  [found |-> nd # NoNode, raised |-> p.raised, value |-> p.value]

Updated(self, raised) == [self |-> self, raised |-> raised]

\* the statements of _update_from_response one after the other: an
\* assignment made before a later statement raises stays made
RECURSIVE RunUpdate(_, _, _)
RunUpdate(st, node, steps) ==
    IF steps = <<>> \/ st.raised # "none" THEN st
    ELSE LET r == ReadStep(node, Head(steps))
         IN  IF ~r.found THEN RunUpdate(st, node, Tail(steps))
             ELSE IF r.raised # "none" THEN Updated(st.self, r.raised)
             ELSE RunUpdate(
                    Updated([st.self EXCEPT !.attrs[Head(steps).name] = r.value], "none"),
                    node, Tail(steps))

\* _update_from_response leaving the identifier out of its integer nodes
update_without_id(self, node) ==
    IF node = NoNode THEN Updated(self, "AttributeError")
    ELSE RunUpdate(Updated(self, "none"), node,
                   SelectSeq(UpdateSteps(self.cls), LAMBDA step : step.name # "id"))

\* self._update_from_response(node): node is None when tree.find found
\* nothing, and None has no find
_update_from_response(self, node) ==
    IF node = NoNode THEN Updated(self, "AttributeError")
    ELSE RunUpdate(Updated(self, "none"), node, UpdateSteps(self.cls))

\* _parse_<class>(node): the keyword arguments, or the error raised. A list
\* step always yields its keyword; a scalar step reads find(name), which
\* may be None
RECURSIVE RunParse(_, _, _)
RunParse(st, node, steps) ==
    IF steps = <<>> \/ st.raised # "none" THEN st
    ELSE LET r == ReadStep(node, Head(steps))
         IN  IF r.raised # "none" THEN Parsed(r.raised, st.value)
             ELSE RunParse(Parsed("none", Append(st.value, <<Head(steps).name, r.value>>)),
                           node, Tail(steps))

_parse(cls, node) == RunParse(Parsed("none", <<>>), node, ParseSteps(cls))

\* what the method hands to etree.fromstring: response.data, the response
\* object itself, or response.data.encode()
ParseArgument(cls, op) ==
    IF cls = "UserOrganization" THEN "response"
    ELSE IF cls = "Department" /\ op = "get" THEN "data.encode()"
    ELSE "data"

\* etree.fromstring(argument): bytes have no encode, lxml parses only
\* strings, and a body that is not XML is a syntax error
fromstring(argument, t) ==
    CASE argument = "data.encode()" -> Parsed("AttributeError", NoNode)
      [] argument = "response" -> Parsed("ValueError", NoNode)
      [] OTHER -> IF t.wellformed THEN Parsed("none", t.root)
                  ELSE Parsed("XMLSyntaxError", NoNode)


(***************************************************************************)
(* The entity classes: get_all, get, add, save, delete                     *)
(***************************************************************************)
\* what a method call comes to: the instance after it, the error raised,
\* the request made and the value returned
MethodResult(self, raised, r, ret) ==
    [self |-> self, raised |-> raised, r |-> r, ret |-> ret]

\* "%s/%s/" % (controller, id)
ItemController(cls, id) == controller(cls) \o "/" \o Str(id) \o "/"

\* the controller of get_all: User.get_all(api, marker=0, maxitems=1000)
\* asks for "%s/Filter/%s/%s/"
ListController(cls, args) ==
    IF cls = "User"
    THEN LET m == IndexOfKey(args, "marker", 1)
             x == IndexOfKey(args, "maxitems", 1)
         IN  controller(cls) \o "/Filter/"
             \o Str(IF m = 0 THEN IntV(0) ELSE args[m][2]) \o "/"
             \o Str(IF x = 0 THEN IntV(1000) ELSE args[x][2]) \o "/"
    ELSE controller(cls)

\* [Class(api, **_parse(node)) for node in nodes]
RECURSIVE BuildAll(_, _, _)
BuildAll(cls, nodes, acc) ==
    IF nodes = <<>> THEN Parsed("none", acc)
    ELSE LET p == _parse(cls, Head(nodes))
         IN  IF p.raised # "none" THEN Parsed(p.raised, <<>>)
             ELSE BuildAll(cls, Tail(nodes), Append(acc, NewObject(cls, p.value)))

\* the list comprehension of get_all, or the error it raised
Built(r, built) == MethodResult(NoObject, built.raised, r, built.value)

\* get_all past etree.fromstring
ListParsed(cls, r, tree) ==
    IF tree.raised # "none" THEN MethodResult(NoObject, tree.raised, r, <<>>)
    ELSE Built(r, BuildAll(cls, findall(tree.value, NodeTag(cls)), <<>>))

\* get_all past its call of _request
ListResponse(cls, r) ==
    IF r.raised # "none" THEN MethodResult(NoObject, r.raised, r, <<>>)
    ELSE ListParsed(cls, r, fromstring(ParseArgument(cls, "get_all"), r.response))

get_all(cls, args, n, t) ==
    ListResponse(cls, _request(ListController(cls, args), "GET", <<>>, n, t))

\* Class(api, **params), or the error _parse raised
Instance(cls, r, params) ==
    IF params.raised # "none" THEN MethodResult(NoObject, params.raised, r, <<>>)
    ELSE MethodResult(NoObject, "none", r, <<NewObject(cls, params.value)>>)

\* get past tree.find
ItemFound(cls, r, node) ==
    IF node = NoNode THEN MethodResult(NoObject, "none", r, <<>>)
    ELSE Instance(cls, r, _parse(cls, node))

\* get past etree.fromstring
ItemParsed(cls, r, tree) ==
    IF tree.raised # "none" THEN MethodResult(NoObject, tree.raised, r, <<>>)
    ELSE ItemFound(cls, r, find(tree.value, NodeTag(cls)))

\* get past its call of _request
ItemResponse(cls, r) ==
    IF r.raised # "none" THEN MethodResult(NoObject, r.raised, r, <<>>)
    ELSE ItemParsed(cls, r, fromstring(ParseArgument(cls, "get"), r.response))

\* get returns None (an empty ret) or the one instance
get(cls, id, n, t) ==
    ItemResponse(cls, _request(ItemController(cls, id), "GET", <<>>, n, t))

\* the test _match_filter makes of one attribute: membership when the
\* attribute is a list, equality otherwise
Matches(attr, value) ==
    IF attr.k = "list" THEN value \in Range(attr.l) ELSE attr = value

\* _match_filter(object, **filter): "yes", "no", or the AttributeError of
\* getattr for a key the object has no attribute of
RECURSIVE _match_filter(_, _)
_match_filter(object, predicate) ==
    IF predicate = <<>> THEN "yes"
    ELSE IF \/ Head(predicate)[1] \notin DOMAIN object.attrs
            \/ object.attrs[Head(predicate)[1]] = NoAttribute
    THEN "AttributeError"
    ELSE IF ~Matches(object.attrs[Head(predicate)[1]], Head(predicate)[2]) THEN "no"
    ELSE _match_filter(object, Tail(predicate))

\* the loop of filter: the matching objects in order, or the error raised
RECURSIVE Matching(_, _, _)
Matching(objects, predicate, acc) ==
    IF objects = <<>> THEN Parsed("none", acc)
    ELSE LET verdict == _match_filter(Head(objects), predicate)
         IN  IF verdict = "AttributeError" THEN Parsed("AttributeError", <<>>)
             ELSE Matching(Tail(objects), predicate,
                           IF verdict = "yes" THEN Append(acc, Head(objects)) ELSE acc)

\* what filter and first return: the listing when get_all raised, the
\* selection of its objects otherwise
Selected(listing, selection) ==
    IF listing.raised # "none" THEN listing
    ELSE MethodResult(NoObject, selection.raised, listing.r, selection.value)

\* the body of filter, past its call of get_all
FilterListing(listing, predicate) ==
    Selected(listing, Matching(listing.ret, predicate, <<>>))

\* api.filter(Class, kwargs=args, **filter)
filter(cls, args, predicate, n, t) ==
    FilterListing(get_all(cls, args, n, t), predicate)

\* the loop of first: the first matching object, none, or the error raised
RECURSIVE FirstMatching(_, _)
FirstMatching(objects, predicate) ==
    IF objects = <<>> THEN Parsed("none", <<>>)
    ELSE LET verdict == _match_filter(Head(objects), predicate)
         IN  IF verdict = "AttributeError" THEN Parsed("AttributeError", <<>>)
             ELSE IF verdict = "yes" THEN Parsed("none", <<Head(objects)>>)
             ELSE FirstMatching(Tail(objects), predicate)

\* the body of first, past its call of get_all
FirstOfListing(listing, predicate) ==
    Selected(listing, FirstMatching(listing.ret, predicate))

\* a first that returns the first object get_all produced, matching or not
first_unfiltered(cls, args, predicate, n, t) ==
    FirstOfListing(get_all(cls, args, n, t), <<>>)

\* api.first(Class, kwargs=args, **filter): the result, or None (an empty ret)
first(cls, args, predicate, n, t) ==
    FirstOfListing(get_all(cls, args, n, t), predicate)

\* the field flags of ticket_search, in the order of its keyword arguments
SearchFlags ==
    <<"ticketid", "contents", "author", "email", "creatoremail", "fullname",
      "notes", "usergroup", "userorganization", "user", "tags">>

\* the keyword arguments ticket_search hands to _request, flags being the
\* set of the flags given as True
SearchParameters(query, flags) ==
    << <<"query", query>> >>
    \o [i \in 1..Len(SearchFlags) |-> <<SearchFlags[i], BoolV(SearchFlags[i] \in flags)>>]

\* Ticket(api, **Ticket._parse_ticket(api, node)), kept as the node it is of
TicketOf(node) == [cls |-> "Ticket", node |-> node]

\* the tickets of the parsed response, or the error fromstring raised
Tickets(r, ticket_xml) ==
    IF ticket_xml.raised # "none" THEN MethodResult(NoObject, ticket_xml.raised, r, <<>>)
    ELSE MethodResult(NoObject, "none", r,
                      [i \in 1..Len(findall(ticket_xml.value, "ticket")) |->
                          TicketOf(findall(ticket_xml.value, "ticket")[i])])

\* the body of ticket_search, past its call of _request
SearchResponse(r) ==
    IF r.raised # "none" THEN MethodResult(NoObject, r.raised, r, <<>>)
    ELSE Tickets(r, fromstring("data", r.response))

\* api.ticket_search(query, **flags)
ticket_search(query, flags, n, t) ==
    SearchResponse(_request("/Tickets/TicketSearch", "POST",
                            SearchParameters(query, flags), n, t))

\* api.ticket_search_full(query)
ticket_search_full(query, n, t) ==
    ticket_search(query, Range(SearchFlags), n, t)

\* a tail of add and of save that returns without reading the response
Absorb_unread(self, op, r) == MethodResult(self, r.raised, r, <<>>)

\* the tail of add and of save: parse the response, find the node, update
Absorb(self, op, r) ==
    LET tree == fromstring(ParseArgument(self.cls, op), r.response)
        node == find(tree.value, NodeTag(self.cls))
        u == _update_from_response(self, node)
    IN  IF r.raised # "none" THEN MethodResult(self, r.raised, r, <<>>)
        ELSE IF tree.raised # "none" THEN MethodResult(self, tree.raised, r, <<>>)
        ELSE MethodResult(u.self, u.raised, r, <<>>)

\* add() posting the populated fields itself, past the checks of _add
add_unchecked(self, n, t) ==
    Absorb(self, "add",
           _request(controller(self.cls), "POST",
                    PopulatedOf(self, AddParameters(self.cls)), n, t))

add(self, n, t) == Absorb(self, "add", _add(self, controller(self.cls), n, t))

\* save() putting the populated fields itself, past the checks of _save
save_unchecked(self, n, t) ==
    Absorb(self, "save",
           _request(ItemController(self.cls, self.attrs["id"]), "PUT",
                    PopulatedOf(self, SaveParameters(self.cls)), n, t))

save(self, n, t) ==
    Absorb(self, "save", _save(self, ItemController(self.cls, self.attrs["id"]), n, t))

\* a delete() addressed to the controller of the class, not to the instance
delete_unaddressed(self, n, t) ==
    LET d == _delete(self, controller(self.cls), n, t)
    IN  MethodResult(d.self, d.result.raised, d.result, <<>>)

delete(self, n, t) ==
    LET d == _delete(self, ItemController(self.cls, self.attrs["id"]), n, t)
    IN  MethodResult(d.self, d.result.raised, d.result, <<>>)


(***************************************************************************)
(* What the caller passes and what the server answers                      *)
(***************************************************************************)
Leaf(tag, text) == Element(tag, text, <<>>)

\* the children of a complete entity node carrying the identifier id
FullKids(cls, id) ==
    CASE cls = "Department" ->
           <<Leaf("id", IntToStr(id)), Leaf("title", "Support"),
             Leaf("type", "private"), Leaf("module", "tickets"),
             Leaf("displayorder", "3"), Leaf("parentdepartmentid", "0"),
             Leaf("uservisibilitycustom", "1"),
             Element("usergroups", "", <<Leaf("id", "1"), Leaf("id", "2")>>)>>
      [] cls = "User" ->
           <<Leaf("id", IntToStr(id)), Leaf("fullname", "John Doe"),
             Leaf("usergroupid", "2"), Leaf("email", "a@x"), Leaf("email", "b@x"),
             Leaf("userorganizationid", "1"), Leaf("salutation", "Mr."),
             Leaf("designation", "cto"), Leaf("phone", "555"),
             Leaf("isenabled", "1"), Leaf("userrole", "user"),
             Leaf("timezone", "GMT"), Leaf("enabledst", "0"),
             Leaf("slaplanid", "4"), Leaf("slaplanexpiry", "7"),
             Leaf("userexpiry", "8"), Leaf("dateline", "5"), Leaf("lastvisit", "6")>>
      [] cls = "UserGroup" ->
           <<Leaf("id", IntToStr(id)), Leaf("title", "Staff"),
             Leaf("grouptype", "registered"), Leaf("ismaster", "0")>>
      [] cls = "UserOrganization" ->
           <<Leaf("id", IntToStr(id)), Leaf("name", "Acme"),
             Leaf("organizationtype", "shared"), Leaf("address", "1 Main"),
             Leaf("city", "Oslo"), Leaf("state", "NO"), Leaf("postalcode", "0150"),
             Leaf("country", "Norway"), Leaf("phone", "555"), Leaf("fax", "556"),
             Leaf("website", "acme.example"), Leaf("dateline", "5"),
             Leaf("lastupdate", "6"), Leaf("slaplanid", "4"),
             Leaf("slaplanexpiry", "7")>>
      [] cls = "TicketStatus" ->
           <<Leaf("id", IntToStr(id)), Leaf("title", "Open"), Leaf("type", "public"),
             Leaf("displayorder", "1"), Leaf("statuscolor", "red")>>
      [] cls = "TicketPriority" ->
           <<Leaf("id", IntToStr(id)), Leaf("title", "High"), Leaf("type", "public")>>

\* the children a server answer may leave out
Droppable(cls) ==
    CASE cls = "Department" -> {"id", "title", "usergroups"}
      [] cls = "User" -> {"id", "fullname", "email"}
      [] cls = "UserOrganization" -> {"id", "name"}
      [] OTHER -> {"id", "title"}

\* the child a server answer may carry with no text: the first string field
Blankable(cls) ==
    CASE cls = "User" -> "fullname"
      [] cls = "UserOrganization" -> "name"
      [] OTHER -> "title"

\* the entity node with the identifier id, short of the dropped children and
\* with the blanked ones emptied
EntityNode(cls, id, dropped, blanked) ==
    LET kept == SelectSeq(FullKids(cls, id), LAMBDA kid : kid.tag \notin dropped)
    IN  Element(NodeTag(cls), "",
                [i \in 1..Len(kept) |->
                    IF kept[i].tag \in blanked THEN Leaf(kept[i].tag, "") ELSE kept[i]])

FullNode(cls, id) == EntityNode(cls, id, {}, {})

\* the entity nodes a server answers with: complete, short of one child, or
\* with one child emptied
EntityNodes(cls) ==
    {FullNode(cls, id) : id \in ServerIds}
    \cup {EntityNode(cls, id, {d}, {}) : id \in ServerIds, d \in Droppable(cls)}
    \cup {EntityNode(cls, id, {}, {Blankable(cls)}) : id \in ServerIds}

\* the documents a server answers one entity with: a wrapper around no
\* entity node or around one, and a complete entity node as the root itself
ItemDocuments(cls) ==
    {Element(NodeTag(cls) \o "s", "", <<>>)}
    \cup {Element(NodeTag(cls) \o "s", "", <<nd>>) : nd \in EntityNodes(cls)}
    \cup {FullNode(cls, id) : id \in ServerIds}

\* the documents a server answers a listing with: a wrapper around no entity
\* node, around one, or around several among other nodes
ListDocuments(cls) ==
    {Element(NodeTag(cls) \o "s", "", <<>>)}
    \cup {Element(NodeTag(cls) \o "s", "", <<nd>>) : nd \in EntityNodes(cls)}
    \cup {Element(NodeTag(cls) \o "s", "",
                  <<FullNode(cls, i), Leaf("other", "x"), FullNode(cls, j)>>) :
            i \in ServerIds, j \in ServerIds}

\* what the transport does with a request: it raises, or it returns a
\* response whose body is not XML, or one whose body is one of the documents
TransportOutcomes(documents) ==
    {HttpFailure, HttpResponse(200, FALSE, NoNode), HttpRefusal}
    \cup {HttpResponse(200, TRUE, doc) : doc \in documents}

\* what the transport may answer add and save of the instance
Answers(self) ==
    IF self = NoObject THEN {} ELSE TransportOutcomes(ItemDocuments(self.cls))

\* what the transport may answer delete, which does not read the body
DeleteAnswers(self) ==
    IF self = NoObject THEN {}
    ELSE TransportOutcomes({Element(NodeTag(self.cls) \o "s", "", <<>>)})

\* the keyword arguments of a complete create call
FullKeywords(cls) ==
    CASE cls = "Department" ->
           << <<"title", StrV("Support")>>, <<"module", StrV("tickets")>>,
              <<"type", StrV("public")>> >>
      [] cls = "User" ->
           << <<"fullname", StrV("John Doe")>>, <<"usergroupid", IntV(2)>>,
              <<"password", StrV("easypass332")>>,
              <<"email", ListV(<<StrV("foo@example.com")>>)>> >>
      [] cls = "UserGroup" ->
           << <<"title", StrV("Staff")>>, <<"grouptype", StrV("registered")>> >>
      [] cls = "UserOrganization" ->
           << <<"name", StrV("Acme")>>, <<"organizationtype", StrV("shared")>> >>
      [] OTHER ->
           << <<"title", StrV("Open")>>, <<"type", StrV("public")>> >>

\* the keyword arguments create is called with: the complete ones, the
\* complete ones short of one keyword, with one keyword None, with an
\* undeclared keyword, and none at all
Keywords(cls) ==
    LET full == FullKeywords(cls)
    IN  {full, <<>>, Append(full, <<"bogus", StrV("x")>>)}
        \cup {SelectSeq(full, LAMBDA kw : kw[1] # full[i][1]) : i \in 1..Len(full)}
        \cup {[full EXCEPT ![i] = <<full[i][1], None>>] : i \in 1..Len(full)}


(***************************************************************************)
(* The state machine                                                       *)
(*                                                                         *)
(* api is the client, obj the instance the caller holds, lifecycle whether *)
(* that instance is new, added or deleted; last records the latest call    *)
(* (its inputs, the instance before it and what it came to) and sent the   *)
(* requests that call handed to the transport; queries counts the          *)
(* class-level queries and direct requests made so far.                    *)
(***************************************************************************)
Outcome(op, cls, m, pre, was, n, t) ==
    [op |-> op, cls |-> cls, raised |-> m.raised, pre |-> pre, was |-> was,
     n |-> n, t |-> t, call |-> m.r.call, salt |-> m.r.salt,
     signature |-> m.r.signature, data |-> m.r.data,
     signed |-> IF m.r = Refused THEN 0 ELSE 1, ret |-> m.ret,
     args |-> <<>>, again |-> FALSE]

\* the record of a class-level call made with the arguments args; again
\* tells that the call before it was the same call
Queried(op, cls, m, args, n, t) ==
    [Outcome(op, cls, m, obj, lifecycle, n, t) EXCEPT
        !.args = args,
        !.again = (last.op = op /\ last.cls = cls /\ last.args = args
                   /\ last.call = m.r.call)]

Init ==
    /\ api = KayakoAPI(StrV(API_URL), StrV(API_KEY), StrV(SECRET_KEY)).self
    /\ obj = NoObject
    /\ lifecycle = "none"
    /\ last = Outcome("init", "none", MethodResult(NoObject, "none", Refused, <<>>),
                      NoObject, "none", Draw(0, 0), NoResponse)
    /\ sent = <<>>
    /\ queries = 0

\* api.create(Class, **kwargs)
Create(cls, kwargs) ==
    LET refused == UnknownKeywords(cls, kwargs) # {}
        m == MethodResult(obj, IF refused THEN "KayakoRequestError" ELSE "none",
                          [Refused EXCEPT !.call = Call("", "", kwargs)], <<>>)
    IN  /\ obj' = IF refused THEN obj ELSE NewObject(cls, kwargs)
        /\ lifecycle' = IF refused THEN lifecycle ELSE "New"
        /\ last' = Outcome("create", cls, m, NoObject, "none", Draw(0, 0), NoResponse)
        /\ sent' = <<>>
        /\ UNCHANGED <<api, queries>>

\* obj.add()
Add(n, t) ==
    /\ obj # NoObject
    /\ \E m \in {add(obj, n, t)} :
           /\ obj' = m.self
           /\ lifecycle' = IF m.raised = "none" THEN "Persisted" ELSE lifecycle
           /\ last' = Outcome("add", obj.cls, m, obj, lifecycle, n, t)
           /\ sent' = m.r.calls
    /\ UNCHANGED <<api, queries>>

\* obj.save()
Save(n, t) ==
    /\ obj # NoObject
    /\ \E m \in {save(obj, n, t)} :
           /\ obj' = m.self
           /\ last' = Outcome("save", obj.cls, m, obj, lifecycle, n, t)
           /\ sent' = m.r.calls
    /\ UNCHANGED <<api, lifecycle, queries>>

\* obj.delete()
Delete(n, t) ==
    /\ obj # NoObject
    /\ \E m \in {delete(obj, n, t)} :
           /\ obj' = m.self
           /\ lifecycle' = IF m.raised = "none" THEN "Deleted" ELSE lifecycle
           /\ last' = Outcome("delete", obj.cls, m, obj, lifecycle, n, t)
           /\ sent' = m.r.calls
    /\ UNCHANGED <<api, queries>>

\* api.get(Class, id)
Get(cls, id, n, t) ==
    /\ queries < MaxCalls
    /\ \E m \in {get(cls, IntV(id), n, t)} :
           /\ last' = Queried("get", cls, m, <<>>, n, t)
           /\ sent' = m.r.calls
    /\ queries' = queries + 1
    /\ UNCHANGED <<api, obj, lifecycle>>

\* api.get_all(Class, **args)
GetAll(cls, args, n, t) ==
    /\ queries < MaxCalls
    /\ \E m \in {get_all(cls, args, n, t)} :
           /\ last' = Queried("get_all", cls, m, args, n, t)
           /\ sent' = m.r.calls
    /\ queries' = queries + 1
    /\ UNCHANGED <<api, obj, lifecycle>>

\* api.filter(Class, kwargs=args, **predicate)
Filter(cls, args, predicate, n, t) ==
    /\ queries < MaxCalls
    /\ \E m \in {filter(cls, args, predicate, n, t)} :
           /\ last' = Queried("filter", cls, m, <<args, predicate>>, n, t)
           /\ sent' = m.r.calls
    /\ queries' = queries + 1
    /\ UNCHANGED <<api, obj, lifecycle>>

\* api.first(Class, kwargs=args, **predicate)
First(cls, args, predicate, n, t) ==
    /\ queries < MaxCalls
    /\ \E m \in {first(cls, args, predicate, n, t)} :
           /\ last' = Queried("first", cls, m, <<args, predicate>>, n, t)
           /\ sent' = m.r.calls
    /\ queries' = queries + 1
    /\ UNCHANGED <<api, obj, lifecycle>>

\* api.ticket_search(query, **flags)
TicketSearch(query, flags, n, t) ==
    /\ queries < MaxCalls
    /\ \E m \in {ticket_search(query, flags, n, t)} :
           /\ last' = Queried("ticket_search", "Ticket", m, <<query, flags>>, n, t)
           /\ sent' = m.r.calls
    /\ queries' = queries + 1
    /\ UNCHANGED <<api, obj, lifecycle>>

\* api.ticket_search_full(query)
TicketSearchFull(query, n, t) ==
    /\ queries < MaxCalls
    /\ \E m \in {ticket_search_full(query, n, t)} :
           /\ last' = Queried("ticket_search_full", "Ticket", m, <<query>>, n, t)
           /\ sent' = m.r.calls
    /\ queries' = queries + 1
    /\ UNCHANGED <<api, obj, lifecycle>>

\* the predicates filter and first are called with: none, the identifier,
\* a scalar field, a member of a list-valued field, a list-valued field
\* itself, two fields, and a key that is no field
Predicates(cls) ==
    {<<>>, << <<"id", IntV(FirstId + 1)>> >>, << <<"bogus", StrV("x")>> >>}
    \cup (IF cls = "Department"
          THEN {<< <<"module", StrV("tickets")>> >>,
                << <<"usergroupid", IntV(1)>> >>,
                << <<"usergroupid", ListV(<<IntV(1), IntV(2)>>)>> >>,
                << <<"module", StrV("tickets")>>, <<"id", IntV(FirstId + 2)>> >>}
          ELSE IF cls = "User"
          THEN {<< <<"email", StrV("b@x")>> >>,
                << <<"email", ListV(<<StrV("a@x"), StrV("b@x")>>)>> >>}
          ELSE {})

\* the queries and flags ticket_search is called with
SearchQueries == {StrV("printer"), StrV("a b")}
SearchFlagSets == {{}, {"ticketid"}, {"contents", "tags"}, Range(SearchFlags)}

\* the documents a server answers a ticket search with
SearchDocuments ==
    {Element("tickets", "", <<>>),
     Element("tickets", "", <<Element("ticket", "", <<Leaf("id", "7")>>)>>)}

\* the paging arguments get_all is called with
ListArguments(cls) ==
    IF cls = "User"
    THEN {<<>>, << <<"marker", IntV(1)>>, <<"maxitems", IntV(1000)>> >>,
          << <<"marker", IntV(5)>>, <<"maxitems", IntV(10)>> >>}
    ELSE {<<>>}

\* api._request(controller, method, **parameters) called directly
Request(ctl, method, parameters, n, t) ==
    /\ queries < MaxCalls
    /\ \E r \in {_request(ctl, method, parameters, n, t)} :
           /\ last' = Outcome("_request", "none", MethodResult(obj, r.raised, r, <<>>),
                              obj, lifecycle, n, t)
           /\ sent' = r.calls
    /\ queries' = queries + 1
    /\ UNCHANGED <<api, obj, lifecycle>>

\* the draw the signer makes in the life of one instance; the draws
\* themselves are explored by RequestSpec
InstanceDraws == {Draw(0, 0)}

\* the life of one instance: created once, then added, saved and deleted in
\* any order
Next ==
    \/ \E cls \in Classes : \E kwargs \in Keywords(cls) :
         obj = NoObject /\ Create(cls, kwargs)
    \/ \E n \in InstanceDraws : \E t \in Answers(obj) : Add(n, t)
    \/ \E n \in InstanceDraws : \E t \in Answers(obj) : Save(n, t)
    \/ \E n \in InstanceDraws : \E t \in DeleteAnswers(obj) : Delete(n, t)

Spec == Init /\ [][Next]_vars

\* one class-level query of a new client
QueryNext ==
    \/ queries = 0 /\ \E cls \in Classes : \E id \in ServerIds : \E n \in InstanceDraws :
         \E t \in TransportOutcomes(ItemDocuments(cls)) : Get(cls, id, n, t)
    \/ queries = 0 /\ \E cls \in Classes : \E args \in ListArguments(cls) : \E n \in InstanceDraws :
         \E t \in TransportOutcomes(ListDocuments(cls)) : GetAll(cls, args, n, t)
    \/ queries = 0 /\ \E cls \in Classes : \E args \in ListArguments(cls) :
         \E predicate \in Predicates(cls) : \E n \in InstanceDraws :
           \E t \in TransportOutcomes(ListDocuments(cls)) :
             Filter(cls, args, predicate, n, t)
    \/ queries = 0 /\ \E cls \in Classes : \E args \in ListArguments(cls) :
         \E predicate \in Predicates(cls) : \E n \in InstanceDraws :
           \E t \in TransportOutcomes(ListDocuments(cls)) :
             First(cls, args, predicate, n, t)
    \/ queries = 0 /\ \E query \in SearchQueries : \E flags \in SearchFlagSets :
         \E n \in InstanceDraws : \E t \in TransportOutcomes(SearchDocuments) :
           TicketSearch(query, flags, n, t)
    \/ queries = 0 /\ \E query \in SearchQueries : \E n \in InstanceDraws :
         \E t \in TransportOutcomes(SearchDocuments) :
           TicketSearchFull(query, n, t)

QuerySpec == Init /\ [][QueryNext]_vars

\* the parameter mappings a direct _request call is given
ParameterValues ==
    {StrV("1"), StrV("a b"), BoolV(TRUE), ListV(<<StrV("x"), StrV("y")>>), ListV(<<>>)}
    \cup {None, FOREVER, BoolV(FALSE), DateV(86400), IntV(0), StrV("")}
    \cup {ListV(<<StrV("x"), StrV(""), None, StrV("y")>>),
          ListV(<<None, BoolV(TRUE), IntV(0), FOREVER, BoolV(FALSE)>>),
          ListV(<<StrV("x"), ListV(<<StrV("y"), None>>)>>),
          ListV(<<ListV(<<>>)>>)}

ParameterKeys == <<"a", "tags", "q">>

ParameterMappings ==
    {<<>>}
    \cup {<< <<ParameterKeys[1], v>> >> : v \in ParameterValues}
    \cup (IF MaxParams < 2 THEN {}
          ELSE {<< <<ParameterKeys[1], StrV("1")>>, <<ParameterKeys[2], v>> >> :
                  v \in ParameterValues})
    \cup (IF MaxParams < 3 THEN {}
          ELSE {<< <<ParameterKeys[1], StrV("1")>>, <<ParameterKeys[2], StrV("x")>>,
                   <<ParameterKeys[3], v>> >> : v \in ParameterValues})

Methods == {"GET", "POST", "PUT", "DELETE", "PATCH", "get"}

\* one direct call of the request layer of a new client
RequestNext ==
    queries = 0 /\ \E method \in Methods : \E parameters \in ParameterMappings :
      \E n \in SaltDraws :
        \E t \in {HttpFailure, HttpRefusal,
                  HttpResponse(200, TRUE, Element("departments", "", <<>>))} :
          Request(controller("Department"), method, parameters, n, t)

RequestSpec == Init /\ [][RequestNext]_vars

\* what the transport answers in a session: a connection failure, a
\* status that is not 2xx, or the one document
SessionAnswers(doc) == {HttpFailure, HttpRefusal, HttpResponse(200, TRUE, doc)}

SessionClasses == {"Department", "UserGroup"}

\* the listing a session is answered with
SessionListing(cls) ==
    Element(NodeTag(cls) \o "s", "",
            <<FullNode(cls, FirstId + 1), FullNode(cls, FirstId + 2)>>)

\* the entry a session is answered with
SessionEntry(cls) == Element(NodeTag(cls) \o "s", "", <<FullNode(cls, FirstId + 1)>>)

\* a session of one client: one Department that is created, added, saved
\* and deleted, among class-level queries that are made up to MaxCalls times
SessionNext ==
    \/ obj = NoObject /\ Create("Department", FullKeywords("Department"))
    \/ \E n \in InstanceDraws : \E t \in SessionAnswers(SessionEntry("Department")) :
         Add(n, t)
    \/ \E n \in InstanceDraws : \E t \in SessionAnswers(SessionEntry("Department")) :
         Save(n, t)
    \/ \E n \in InstanceDraws : \E t \in SessionAnswers(SessionEntry("Department")) :
         Delete(n, t)
    \/ \E cls \in SessionClasses : \E n \in InstanceDraws :
         \E t \in SessionAnswers(SessionEntry(cls)) : Get(cls, FirstId + 1, n, t)
    \/ \E cls \in SessionClasses : \E n \in InstanceDraws :
         \E t \in SessionAnswers(SessionListing(cls)) : GetAll(cls, <<>>, n, t)
    \/ \E cls \in SessionClasses : \E n \in InstanceDraws :
         \E predicate \in {<<>>, << <<"id", IntV(FirstId + 2)>> >>} :
           \E t \in SessionAnswers(SessionListing(cls)) :
             Filter(cls, <<>>, predicate, n, t)
    \/ \E cls \in SessionClasses : \E n \in InstanceDraws :
         \E predicate \in {<<>>, << <<"id", IntV(FirstId + 2)>> >>} :
           \E t \in SessionAnswers(SessionListing(cls)) :
             First(cls, <<>>, predicate, n, t)
    \/ \E n \in InstanceDraws : \E t \in SessionAnswers(Element("tickets", "", <<>>)) :
         TicketSearch(StrV("printer"), {"ticketid"}, n, t)

SessionSpec == Init /\ [][SessionNext]_vars

\* before any client is constructed
ClientInit ==
    /\ api = NoClient
    /\ obj = NoObject
    /\ lifecycle = "none"
    /\ last = Outcome("init", "none", MethodResult(NoObject, "none", Refused, <<>>),
                      NoObject, "none", Draw(0, 0), NoResponse)
    /\ sent = <<>>
    /\ queries = 0

\* api = KayakoAPI(api_url, api_key, secret_key)
Construct(api_url, api_key, secret_key) ==
    /\ last.op = "init"
    /\ \E c \in {KayakoAPI(api_url, api_key, secret_key)} :
           /\ api' = c.self
           /\ last' = [Outcome("KayakoAPI", "none",
                               MethodResult(NoObject, c.raised, Refused, <<>>),
                               NoObject, "none", Draw(0, 0), NoResponse)
                         EXCEPT !.args = <<api_url, api_key, secret_key>>]
    /\ UNCHANGED <<obj, lifecycle, sent, queries>>

\* the values a credential is given as: absent, empty, and two strings
Credentials(usual) == {None, StrV(""), StrV(usual), StrV(usual \o "2")}

\* the life of a client: constructed once, then used for direct requests,
\* queries and the operations of one Department
ClientNext ==
    \/ \E api_url \in Credentials(API_URL) : \E api_key \in Credentials(API_KEY) :
         \E secret_key \in Credentials(SECRET_KEY) :
           Construct(api_url, api_key, secret_key)
    \/ api # NoClient /\ \E method \in {"GET", "POST"} : \E n \in SaltDraws :
         \E t \in SessionAnswers(Element("departments", "", <<>>)) :
           Request(controller("Department"), method, << <<"a", StrV("1")>> >>, n, t)
    \/ api # NoClient /\ \E n \in InstanceDraws :
         \E t \in SessionAnswers(SessionListing("Department")) :
           GetAll("Department", <<>>, n, t)
    \/ api # NoClient /\ obj = NoObject
         /\ Create("Department", FullKeywords("Department"))
    \/ api # NoClient /\ \E n \in InstanceDraws :
         \E t \in SessionAnswers(SessionEntry("Department")) : Add(n, t)
    \/ api # NoClient /\ \E n \in InstanceDraws :
         \E t \in SessionAnswers(SessionEntry("Department")) : Delete(n, t)

ClientSpec == ClientInit /\ [][ClientNext]_vars

(***************************************************************************)
(* Properties                                                              *)
(***************************************************************************)
Transient(self) == self.attrs["id"] = UnsetParameter

OnInstance(ops) == last.op \in ops /\ last.pre # NoObject

C2_AddNeedsRequiredFields ==
    (/\ OnInstance({"add"})
     /\ \E f \in Range(RequiredAddParameters(last.cls)) :
            last.pre.attrs[f] \in {UnsetParameter, None})
        => /\ last.raised = "KayakoRequestError"
           /\ sent = <<>>

\* add() refused on a Department whose title is None and on nothing else
C2_Witness ==
    /\ OnInstance({"add"}) /\ last.cls = "Department"
    /\ last.pre.attrs["title"] = None
    /\ last.pre.attrs["module"] = StrV("tickets")
    /\ last.pre.attrs["type"] = StrV("public")
    /\ last.raised = "KayakoRequestError"

\* the entity node add and save found in the response, or NoNode
AnsweredNode == find(last.t.root, NodeTag(last.cls))

\* the identifier the answered node carries, or UnsetParameter
AnsweredId ==
    LET nd == find(AnsweredNode, "id")
    IN  IF nd = NoNode \/ ~IsDigits(nd.text) THEN UnsetParameter
        ELSE IntV(StrToInt(nd.text))

\* add or save got as far as _update_from_response with a node
Absorbed ==
    /\ OnInstance({"add", "save"}) /\ sent # <<>>
    /\ last.t.kind = "response" /\ last.t.wellformed
    /\ ParseArgument(last.cls, last.op) = "data"
    /\ AnsweredNode # NoNode

TextsOf(nodes) == [i \in 1..Len(nodes) |-> StrV(nodes[i].text)]

\* the elements of the answered node that carry the declared field f: the
\* <id> children of <usergroups> for Department.usergroupid, the children
\* named f otherwise
ElementsFor(cls, f) ==
    IF cls = "Department" /\ f = "usergroupid"
    THEN findall(find(AnsweredNode, "usergroups"), "id")
    ELSE findall(AnsweredNode, f)

\* whether the answered node carries the declared field f
Carries(cls, f) ==
    IF cls = "Department" /\ f = "usergroupid"
    THEN find(AnsweredNode, "usergroups") # NoNode
    ELSE findall(AnsweredNode, f) # <<>>

MultiValued(cls, f) ==
    \/ cls = "Department" /\ f = "usergroupid"
    \/ cls = "User" /\ f = "email"

\* the field holds the value of its elements: its wire form is their text
HoldsAnswered(self, f) ==
    IF MultiValued(self.cls, f)
    THEN self.attrs[f].k = "list"
         /\ _sanitize_parameter(self.attrs[f]) = ListV(TextsOf(ElementsFor(self.cls, f)))
    ELSE _sanitize_parameter(self.attrs[f]) = StrV(ElementsFor(self.cls, f)[1].text)

\* C4: after a successful add() or save(), every declared field for which
\* the entity node of the response carries a child element holds the value
\* parsed from it, the identifier and the multi-valued fields (User.email,
\* Department.usergroupid) included.
C4_FieldsFollowResponse ==
    (OnInstance({"add", "save"}) /\ last.raised = "none")
        => \A f \in Range(Parameters(last.cls)) :
               Carries(last.cls, f) => HoldsAnswered(obj, f)


\* the Department of the usage example: title, module and type given
ScenarioDepartment(self) ==
    /\ self.cls = "Department"
    /\ \A f \in {"title", "module", "type"} : self.attrs[f].k = "str"

\* a complete <department> node with the first identifier the server assigns
ScenarioNode == FullNode("Department", FirstId + 1)

\* the instance holds the identifier and the values of ScenarioNode
HoldsScenario(self) ==
    /\ self.attrs["id"] = IntV(FirstId + 1)
    /\ self.attrs["title"] = StrV("Support")
    /\ self.attrs["module"] = StrV("tickets")
    /\ self.attrs["type"] = StrV("private")

AddAnswered(doc) ==
    /\ OnInstance({"add"}) /\ ScenarioDepartment(last.pre)
    /\ last.t = HttpResponse(200, TRUE, doc)

DeleteAnswered ==
    /\ OnInstance({"delete"}) /\ last.cls = "Department"
    /\ last.pre.attrs["id"] = IntV(FirstId + 1)
    /\ last.t.kind = "response"

ReAdded ==
    /\ OnInstance({"add"}) /\ last.was = "Deleted"
    /\ \A f \in Range(RequiredAddParameters(last.cls)) :
           last.pre.attrs[f] \notin {UnsetParameter, None}

\* C6: an instance that was added and then deleted can be added again:
\* add() is not refused when the required-add fields are still populated,
\* it hands one POST to the transport, and when it succeeds the instance is
\* Persisted, with the identifier this second response carries.
C6_DeletedCanBeAddedAgain ==
    ReAdded => /\ last.raised # "KayakoRequestError"
               /\ Len(sent) = 1 /\ sent[1].method = "POST"
               /\ last.raised = "none"
                      => /\ lifecycle = "Persisted"
                         /\ AnsweredId # UnsetParameter
                                => obj.attrs["id"] = AnsweredId

\* a second add() that succeeded with another identifier than the first
C6_Witness ==
    /\ ReAdded /\ last.raised = "none" /\ lifecycle = "Persisted"
    /\ obj.attrs["id"] = IntV(FirstId + 2)


\* a class-level query that the transport answered with well-formed XML
QueryAnswered ==
    /\ last.op \in {"get", "get_all"}
    /\ last.t.kind = "response" /\ last.t.wellformed

\* the instance a query builds from an entity node
InstanceOf(cls, node) == NewObject(cls, _parse(cls, node).value)

\* C7: for every class and every well-formed response body, get(id)
\* returns None when the body has no node of the class's tag and otherwise
\* a new instance populated from that node; get_all returns one instance
\* per node of the tag, in document order, and an empty sequence when
\* there is none; neither fails.
C7_QueriesReadEveryBody ==
    QueryAnswered
        => LET nodes == findall(last.t.root, NodeTag(last.cls))
           IN  /\ last.raised = "none"
               /\ last.op = "get"
                      => IF nodes = <<>> THEN last.ret = <<>>
                         ELSE last.ret = <<InstanceOf(last.cls, nodes[1])>>
               /\ last.op = "get_all"
                      => last.ret = [i \in 1..Len(nodes) |-> InstanceOf(last.cls, nodes[i])]


\* the positions of the character c in s
Cuts(s, c) == {i \in 1..Len(s) : SubSeq(s, i, i) = c}

\* s cut at every occurrence of the character c
Split(s, c) ==
    LET cuts == Cuts(s, c)
        cut(k) == CHOOSE i \in cuts : Cardinality({j \in cuts : j < i}) = k - 1
    IN  [k \in 1..(Cardinality(cuts) + 1) |->
            SubSeq(s, IF k = 1 THEN 1 ELSE cut(k - 1) + 1,
                      IF k = Cardinality(cuts) + 1 THEN Len(s) ELSE cut(k) - 1)]

\* what follows the first occurrence of the character c in s, or ""
After(s, c) ==
    IF Cuts(s, c) = {} THEN ""
    ELSE SubSeq(s, (CHOOSE i \in Cuts(s, c) : \A j \in Cuts(s, c) : i <= j) + 1, Len(s))

\* what precedes the first occurrence of the character c in s
Before(s, c) ==
    IF Cuts(s, c) = {} THEN s
    ELSE SubSeq(s, 1, (CHOOSE i \in Cuts(s, c) : \A j \in Cuts(s, c) : i <= j) - 1)

\* the key=value fields of an encoded string, in order
FieldsOf(encoded) == IF encoded = "" THEN <<>> ELSE Split(encoded, "&")

\* the fields of the query string of a request and their keys
QueryFields(req) == FieldsOf(After(req.url, "?"))
QueryKeys(req) == {Before(QueryFields(req)[i], "=") : i \in 1..Len(QueryFields(req))}

\* the fields of the body of a request, none when it has no body
BodyFields(req) == IF req.body = None THEN <<>> ELSE FieldsOf(req.body.s)

\* the form-encoding of a parameter mapping after sanitizing
Encoded(parameters) == _post_data(_sanitize_parameters(parameters)).data

\* the caller's parameters together with the authentication triple
WithAuth(parameters) ==
    parameters \o << <<"apikey", StrV(api.api_key)>>, <<"salt", StrV(last.salt)>>,
                     <<"signature", StrV(last.signature)>> >>

\* a direct _request call with one of the methods reached the transport
Requested(methods) ==
    /\ last.op = "_request" /\ last.call.method \in methods
    /\ Len(sent) = 1

\* C8: for every _request with method POST or PUT the request handed to
\* the transport has as its body the form-encoding of the sanitized caller
\* parameters together with apikey, salt and signature, and its query
\* string holds the controller selector e and nothing else.
C8_BodyCarriesParametersAndAuth ==
    Requested({"POST", "PUT"})
        => /\ sent[1].body = Encoded(WithAuth(last.call.parameters))
           /\ sent[1].body # None
           /\ QueryFields(sent[1]) = <<"e=" \o quote(last.call.ctl)>>

\* C9: for every _request with method GET or DELETE the query string
\* carries e, apikey, salt and signature; for GET the encoded caller
\* parameters follow in the query string and there is no body; for DELETE
\* the encoded caller parameters are the body and are not in the URL.
C9_QueryCarriesAuth ==
    Requested({"GET", "DELETE"})
        => LET auth == <<"e=" \o quote(last.call.ctl), "apikey=" \o api.api_key,
                          "salt=" \o last.salt, "signature=" \o last.signature>>
               params == Encoded(last.call.parameters)
           IN  /\ last.call.method = "GET"
                      => /\ QueryFields(sent[1])
                              = auth \o (IF params = None THEN <<>> ELSE FieldsOf(params.s))
                         /\ sent[1].body = None
               /\ last.call.method = "DELETE"
                      => /\ QueryFields(sent[1]) = auth
                         /\ sent[1].body = params

\* the request carries the field key=value, in its query string or in its
\* body, the value as it is or percent-encoded
CarriesField(req, key, value) ==
    \E i \in 1..Len(QueryFields(req) \o BodyFields(req)) :
        (QueryFields(req) \o BodyFields(req))[i]
            \in {key \o "=" \o value, key \o "=" \o quote(value)}

\* C10: every request a client makes carries a salt drawn by the one
\* signer invocation of its own _request call, nothing of it being kept
\* on the client; the salt is the decimal string of an integer of
\* 0 .. 2^32 - 1 and the signature sent is Sign(secret_key, salt) for the
\* salt sent in that same request.
C10_FreshSaltAndSignatureSent ==
    (last.op = "_request" /\ sent # <<>>)
        => /\ last.signed = 1 /\ Len(sent) = 1
           /\ DOMAIN api = {"api_url", "api_key", "secret_key"}
           /\ IsBits32(last.n) /\ last.salt = DrawToStr(last.n)
           /\ IsDigits(last.salt)
           /\ CarriesField(sent[1], "salt", last.salt)
           /\ CarriesField(sent[1], "signature", HmacB64(api.secret_key, last.salt))


\* C11: for every method value other than GET, POST, PUT and DELETE,
\* _request fails with a request-error and the transport is never invoked.
C11_OtherMethodsRefused ==
    (last.op = "_request" /\ last.call.method \notin {"GET", "POST", "PUT", "DELETE"})
        => /\ last.raised = "KayakoRequestError"
           /\ sent = <<>>

\* _request refused the lower-case method name get
C11_Witness ==
    /\ last.op = "_request" /\ last.call.method = "get"
    /\ last.call.parameters # <<>>
    /\ last.raised = "KayakoRequestError" /\ sent = <<>>

\* the transport failed the request of the latest call or answered it with
\* a status that is not 2xx
TransportFailed ==
    /\ sent # <<>>
    /\ \/ last.t.kind = "HTTPError"
       \/ last.t.kind = "response" /\ last.t.status \notin 200..299

\* C12: whenever the transport reports a connection error or a non-2xx
\* status, _request fails with a response-error: it never returns the
\* failed response as if it were a success and never raises an error of
\* another kind.
C12_TransportFailureIsResponseError ==
    (last.op = "_request" /\ TransportFailed)
        => last.raised = "KayakoResponseError"


\* add or save was answered a well-formed document without a node of the
\* tag of the class
AnsweredWithoutNode ==
    /\ OnInstance({"add", "save"}) /\ sent # <<>>
    /\ last.t.kind = "response" /\ last.t.wellformed
    /\ AnsweredNode = NoNode

\* C13: when the response to add() or save() is a well-formed XML document
\* with no node of the expected tag, the operation fails with a
\* response-error and with no other kind of error, and the fields of the
\* instance are unchanged.
C13_MissingNodeIsResponseError ==
    AnsweredWithoutNode
        => /\ last.raised = "KayakoResponseError"
           /\ obj = last.pre


\* the operations that make a request of their own
Operations ==
    {"get", "get_all", "filter", "first", "add", "save", "delete", "ticket_search"}

\* C14: every invocation of get, get_all, filter, first, add, save, delete
\* or ticket_search that passes the caller-side validation hands exactly
\* one HTTP request to the transport: a failed request is not retried, and
\* a get, get_all, filter or first repeated with the same arguments makes a
\* request of its own, signed by its own call, and keeps nothing on the
\* client to answer from.
C14_OneRequestPerInvocation ==
    (last.op \in Operations /\ last.raised # "KayakoRequestError")
        => /\ Len(sent) = 1
           /\ sent[1].method = last.call.method
           /\ sent[1] = HttpRequest(last.call.method, sent[1].url, last.data)
           /\ last.signed = 1
           /\ DOMAIN api = {"api_url", "api_key", "secret_key"}

\* a get repeated with the same arguments whose request the transport failed
C14_Witness ==
    /\ last.op = "get" /\ last.again /\ queries = 2
    /\ last.t.kind = "HTTPError" /\ last.raised # "none"
    /\ Len(sent) = 1 /\ sent[1].method = "GET"


\* the arguments the client was constructed with
Constructed == last.op = "KayakoAPI"

\* C15: constructing KayakoAPI with api_url, api_key or secret_key absent
\* or empty fails with an initialization error; when the construction
\* succeeds the client's api_url, api_key and secret_key are the
\* constructor arguments, and no later operation changes them.
C15_CredentialsRequiredAndKept ==
    /\ [](Constructed =>
            IF \E i \in 1..3 : last.args[i] \in {None, StrV("")}
            THEN last.raised = "KayakoInitializationError" /\ api = NoClient
            ELSE /\ last.raised = "none"
                 /\ api = [api_url |-> last.args[1].s, api_key |-> last.args[2].s,
                           secret_key |-> last.args[3].s])
    /\ [][last.op # "init" => api' = api]_vars

\* a client constructed with a key other than its secret, after it added a
\* Department and then made a signed request
C15_Witness ==
    /\ api # NoClient /\ api.api_key = API_KEY /\ api.secret_key = SECRET_KEY \o "2"
    /\ lifecycle = "Persisted"
    /\ last.op = "_request" /\ last.raised = "none"
    /\ last.signature = HmacB64(SECRET_KEY \o "2", last.salt)


\* what get_all produced for the latest filter or first
Listed == get_all(last.cls, last.args[1], last.n, last.t)

\* the instance's field key equals value, or the field is list-valued and
\* value is a member of it
Satisfies(object, pair) ==
    \/ object.attrs[pair[1]] = pair[2]
    \/ object.attrs[pair[1]].k = "list" /\ pair[2] \in Range(object.attrs[pair[1]].l)

\* a filter over the fields of the class that got its listing
Filtered(op) ==
    /\ last.op = op /\ Listed.raised = "none"
    /\ \A i \in 1..Len(last.args[2]) :
           last.args[2][i][1] \in Range(Parameters(last.cls))

\* C16: filter returns, in the order get_all produced them, exactly the
\* instances for which every predicate pair (key, value) is satisfied: the
\* field key equals value, or the field is list-valued and value is a
\* member of it; so an instance whose list-valued field equals the
\* predicate value is kept.
C16_FilterKeepsMatches ==
    Filtered("filter")
        => /\ last.raised = "none"
           /\ last.ret = SelectSeq(Listed.ret,
                            LAMBDA object :
                                \A i \in 1..Len(last.args[2]) :
                                    Satisfies(object, last.args[2][i]))

\* C17: for the same server response and the same predicate, first returns
\* the first element of what filter returns when that is not empty, and
\* None, without raising, when it is empty.
C17_FirstIsHeadOfFilter ==
    last.op = "first"
        => LET all == filter(last.cls, last.args[1], last.args[2], last.n, last.t)
           IN  /\ last.raised = all.raised
               /\ all.raised = "none"
                      => last.ret = IF all.ret = <<>> THEN <<>> ELSE <<all.ret[1]>>

\* first passed over an instance that does not match and returned the one
\* after it
C17_Witness ==
    /\ Filtered("first") /\ last.raised = "none"
    /\ Len(Listed.ret) = 2 /\ Len(last.ret) = 1
    /\ last.ret[1] = Listed.ret[2] /\ last.ret[1] # Listed.ret[1]


\* the values given to the latest direct _request call
GivenValues ==
    IF last.op = "_request"
    THEN {last.call.parameters[i][2] : i \in 1..Len(last.call.parameters)}
    ELSE {}

\* what the claim tells of a scalar
ScalarWire(value) ==
    CASE value = None -> ""
      [] value = FOREVER -> "0"
      [] value = BoolV(TRUE) -> "1"
      [] value = BoolV(FALSE) -> "0"
      [] value.k = "date" -> IntToStr(value.t)
      [] value.k = "int" -> IntToStr(value.i)
      [] value.k = "str" -> value.s

\* a GET that reached the transport with the one parameter a = value
GetWith(value) ==
    /\ Requested({"GET"}) /\ last.call.parameters = << <<"a", value>> >>

\* C18: for scalar inputs the sanitizer returns "" for None, "0" for
\* FOREVER, "1" for True, "0" for False, the decimal timestamp for a
\* datetime and str() for anything else, so 0 gives "0" and "" stays "";
\* and that is what a GET puts in its query string.
C18_ScalarsSanitized ==
    \A value \in GivenValues :
        value.k # "list"
            => /\ _sanitize_parameter(value) = StrV(ScalarWire(value))
               /\ GetWith(value)
                      => QueryFields(sent[1])[5] = "a=" \o quote(ScalarWire(value))

\* a GET that carried FOREVER as a=0
C18_Witness ==
    /\ GetWith(FOREVER) /\ last.raised = "none"
    /\ QueryFields(sent[1])[5] = "a=0"

\* the sanitized forms of the items of a list that are kept
Kept(items) ==
    SelectSeq([i \in 1..Len(items) |-> _sanitize_parameter(items[i])],
              LAMBDA wire : wire \notin {None, StrV("")})

\* C19: for every list L, sanitize(L) is the list of the sanitized
\* elements of L, in order, without exactly those whose sanitized form is
\* null or the empty string; sanitize([]) is [].
C19_ListsSanitizedInOrder ==
    \A value \in GivenValues :
        value.k = "list"
            => /\ _sanitize_parameter(value) = ListV(Kept(value.l))
               /\ value.l = <<>> => _sanitize_parameter(value) = ListV(<<>>)

\* a POST whose list lost its "" and its None and kept x before y
C19_Witness ==
    /\ Requested({"POST"})
    /\ last.call.parameters = << <<"a", ListV(<<StrV("x"), StrV(""), None, StrV("y")>>)>> >>
    /\ SubSeq(FieldsOf(last.data.s), 1, 2) = <<"a[]=x", "a[]=y">>

\* a string, or a list of strings
IsWireValue(wire) ==
    \/ wire.k = "str"
    \/ wire.k = "list" /\ \A i \in 1..Len(wire.l) : wire.l[i].k = "str"

\* C20: for every input value, lists that contain lists included, the
\* sanitizer returns a string or a list of strings, so that the request
\* encoder accepts every sanitized parameter mapping without error.
C20_SanitizedIsEncodable ==
    (last.op = "_request" /\ last.call.method \in {"GET", "POST", "PUT", "DELETE"})
        => /\ \A value \in GivenValues : IsWireValue(_sanitize_parameter(value))
           /\ last.raised # "TypeError"

\* the items the claim tells of one key: key=enc(value) for a string,
\* key[]=enc(v) for each element of a list, key[]= for the empty list
ItemsOf(key, value) ==
    IF value.k = "str" THEN <<key \o "=" \o quote(value.s)>>
    ELSE IF value.l = <<>> THEN <<key \o "[]=">>
    ELSE [i \in 1..Len(value.l) |-> key \o "[]=" \o quote(value.l[i].s)]

\* the items of a whole mapping, in mapping order
RECURSIVE ItemsOfMapping(_)
ItemsOfMapping(mapping) ==
    IF mapping = <<>> THEN <<>>
    ELSE ItemsOf(Head(mapping)[1], Head(mapping)[2]) \o ItemsOfMapping(Tail(mapping))

\* items joined by "&", none before the first and none after the last
RECURSIVE JoinedBy(_, _)
JoinedBy(items, sep) ==
    IF Len(items) = 1 THEN Head(items)
    ELSE Head(items) \o sep \o JoinedBy(Tail(items), sep)

\* a DELETE whose sanitized parameters are a non-empty mapping of keys to
\* strings or lists of strings: its data is the encoder's output for them
EncodedMapping ==
    /\ last.op = "_request" /\ last.call.method = "DELETE"
    /\ last.call.parameters # <<>>
    /\ \A value \in GivenValues : IsWireValue(_sanitize_parameter(value))

\* C21: for every ordered mapping of keys to strings or lists of strings
\* the encoder output is the items joined by "&" in mapping order with no
\* leading or trailing "&": key=enc(value) for a scalar, key[]=enc(v) per
\* element of a list, the single item key[]= for an empty list; so
\* {a: "1", tags: ["x", "y"]} gives a=1&tags[]=x&tags[]=y and {tags: []}
\* gives tags[]= .
C21_EncoderJoinsItemsInOrder ==
    /\ EncodedMapping
          => /\ last.raised # "TypeError"
             /\ last.data
                  = StrV(JoinedBy(ItemsOfMapping(_sanitize_parameters(last.call.parameters)), "&"))
             /\ _post_data(_sanitize_parameters(last.call.parameters)).data = last.data
    /\ last.op = "_request"
          => /\ _post_data(<< <<"a", StrV("1")>>,
                               <<"tags", ListV(<<StrV("x"), StrV("y")>>)>> >>)
                  = PostState(StrV("a=1&tags[]=x&tags[]=y"), "none")
             /\ _post_data(<< <<"tags", ListV(<<>>)>> >>)
                  = PostState(StrV("tags[]="), "none")

\* a DELETE that was given a = "1" and tags = ["x", "y"]
C21_Witness ==
    /\ EncodedMapping /\ Len(sent) = 1
    /\ last.call.parameters
          = << <<"a", StrV("1")>>, <<"tags", ListV(<<StrV("x"), StrV("y")>>)>> >>
    /\ last.data = StrV("a=1&tags[]=x&tags[]=y")

\* the classes the quick reference gives no add, save and delete
ReadOnlyClasses == {"TicketPriority", "TicketStatus"}

\* C22: TicketPriority and TicketStatus support only get and get_all: on
\* every instance of either, add(), save() and delete() fail with
\* KayakoRequestError and hand no request to the transport.
C22_EnumsRefuseWrites ==
    (OnInstance({"add", "save", "delete"}) /\ last.cls \in ReadOnlyClasses)
        => /\ last.raised = "KayakoRequestError"
           /\ sent = <<>>

\* the paging argument get_all(User, ...) was given under the name key, or
\* the value the claim tells for a call without it
PagingOr(key, otherwise) ==
    IF IndexOfKey(last.args, key, 1) = 0 THEN otherwise
    ELSE last.args[IndexOfKey(last.args, key, 1)][2].i

\* C23: get_all(User, marker=m, maxitems=n) issues one GET whose
\* controller is /Base/User/Filter/m/n/ and returns one User per <user>
\* node; called without marker and maxitems it behaves as marker=1,
\* maxitems=1000 and asks for /Base/User/Filter/1/1000/.
C23_UserListingIsPaged ==
    (last.op = "get_all" /\ last.cls = "User")
        => /\ Len(sent) = 1 /\ sent[1].method = "GET"
           /\ last.call.ctl = "/Base/User/Filter/" \o IntToStr(PagingOr("marker", 1))
                                \o "/" \o IntToStr(PagingOr("maxitems", 1000)) \o "/"
           /\ QueryFields(sent[1])[1] = "e=" \o quote(last.call.ctl)
           /\ last.raised = "none"
                  => /\ Len(last.ret) = Len(findall(last.t.root, "user"))
                     /\ \A i \in 1..Len(last.ret) : last.ret[i].cls = "User"

\* the flags the latest search was called with as True
FlagsGiven ==
    IF last.op = "ticket_search_full" THEN Range(SearchFlags) ELSE last.args[2]

\* query=q and the eleven flags, "1" for the flags of the set and "0" for
\* the others, as fields of an encoded request
SearchFields(query, flags) ==
    <<"query=" \o quote(query.s)>>
    \o [i \in 1..Len(SearchFlags) |->
           SearchFlags[i] \o "=" \o (IF SearchFlags[i] \in flags THEN "1" ELSE "0")]

\* a ticket search whose request reached the transport
Searched ==
    /\ last.op \in {"ticket_search", "ticket_search_full"}
    /\ sent # <<>>

\* C24: for every query q, ticket_search_full(q) issues the same request
\* as ticket_search(q) with all eleven flags true: one POST to the
\* controller /Tickets/TicketSearch whose parameters are query=q and each
\* of the eleven flags with wire value "1"; ticket_search(q) without
\* flags carries each of the eleven with wire value "0".  The parameters
\* are those of the body of the POST the transport is handed.
C24_FullSearchSetsEveryFlag ==
    /\ Searched
          => /\ Len(sent) = 1 /\ sent[1].method = "POST"
             /\ last.call.ctl = "/Tickets/TicketSearch"
             /\ QueryFields(sent[1]) = <<"e=" \o quote("/Tickets/TicketSearch")>>
             /\ SubSeq(FieldsOf(last.data.s), 1, 12)
                  = SearchFields(last.args[1], FlagsGiven)
             /\ sent[1].body = last.data
    /\ last.op = "ticket_search_full"
          => \E m \in {ticket_search(last.args[1], Range(SearchFlags), last.n, last.t)} :
                 /\ sent = m.r.calls /\ last.call = m.r.call
                 /\ last.data = m.r.data
                 /\ last.raised = m.raised /\ last.ret = m.ret
                 /\ last.call.parameters
                      = << <<"query", last.args[1]>> >>
                        \o [i \in 1..Len(SearchFlags) |-> <<SearchFlags[i], BoolV(TRUE)>>]

\* C25: if add() raises for any reason (validation, transport, a missing
\* entity node, a child element whose text cannot be parsed) the instance
\* is still Transient afterwards, its identifier Unset and none of its
\* fields changed by the failed call; and a save() that raises leaves
\* every field as it was before the call.
C25_FailedCallsChangeNothing ==
    /\ (OnInstance({"add"}) /\ last.raised # "none" /\ Transient(last.pre))
           => /\ Transient(obj)
              /\ obj.attrs = last.pre.attrs
    /\ (OnInstance({"save"}) /\ last.raised # "none")
           => obj.attrs = last.pre.attrs

\* C26: add() is enabled only in the Transient state: add() called on a
\* Persisted instance, whose identifier an earlier add or save has set,
\* issues no POST, so that no second remote object is created.
C26_AddOnlyWhenTransient ==
    (OnInstance({"add"}) /\ last.was = "Persisted" /\ ~Transient(last.pre))
        => /\ sent = <<>>
           /\ obj.attrs["id"] = last.pre.attrs["id"]

\* a delete() that succeeded
Deleted == OnInstance({"delete"}) /\ last.raised = "none"

\* C27: a successful delete() changes only the identifier of the
\* instance: every other declared field keeps the value it had before the
\* call, and the DELETE is addressed to controller/{id}/ with the
\* identifier the instance held before the call.
C27_DeleteChangesIdentifierOnly ==
    Deleted
        => /\ DOMAIN obj.attrs = DOMAIN last.pre.attrs
           /\ \A f \in DOMAIN obj.attrs \ {"id"} : obj.attrs[f] = last.pre.attrs[f]
           /\ obj.attrs["id"] = UnsetParameter
           /\ last.pre.attrs["id"].k = "int"
           /\ Len(sent) = 1 /\ sent[1].method = "DELETE"
           /\ last.call.ctl = controller(last.cls) \o "/"
                                \o IntToStr(last.pre.attrs["id"].i) \o "/"
           /\ QueryFields(sent[1])[1] = "e=" \o quote(last.call.ctl)

\* a Department that held the identifier 85 and a title was deleted
C27_Witness ==
    /\ Deleted /\ last.cls = "Department" /\ last.was = "Persisted"
    /\ last.pre.attrs["id"] = IntV(FirstId + 1)
    /\ obj.attrs["title"] = StrV("Support")
    /\ obj.attrs["displayorder"] = IntV(3)
    /\ last.call.ctl = "/Base/Department/85/"

\* the character a percent code stands for
PercentDecode(code) ==
    CASE code = "%20" -> " "
      [] code = "%2B" -> "+"
      [] code = "%3D" -> "="
      [] code = "%26" -> "&"
      [] code = "%40" -> "@"
      [] code = "%3F" -> "?"
      [] code = "%3A" -> ":"
      [] code = "%5B" -> "["
      [] code = "%5D" -> "]"
      [] code = "%28" -> "("
      [] code = "%29" -> ")"
      [] code = "%25" -> "%"
      [] code = "%2F" -> "/"
      [] OTHER -> "?"

\* the form decoding a server applies to a value: "+" is a space and %XX
\* the character of that code
RECURSIVE FormDecoded(_)
FormDecoded(s) ==
    IF s = "" THEN ""
    ELSE IF Head(s) = "+" THEN " " \o FormDecoded(Tail(s))
    ELSE IF Head(s) = "%" /\ Len(s) >= 3
         THEN PercentDecode(SubSeq(s, 1, 3)) \o FormDecoded(SubSeq(s, 4, Len(s)))
    ELSE Head(s) \o FormDecoded(Tail(s))

\* the decoded values the fields carry under the name key
ValuesOf(fields, key) ==
    {FormDecoded(After(fields[i], "=")) :
        i \in {j \in 1..Len(fields) : Before(fields[j], "=") = key}}

\* where the method places the authentication triple: the query string
\* for GET and DELETE, the body for POST and PUT
AuthFields(req) ==
    IF req.method \in {"GET", "DELETE"} THEN QueryFields(req) ELSE BodyFields(req)

\* C28: for every method the apikey and signature values put on the wire
\* are percent-encoded wherever they are placed, so that standard form
\* decoding of the request recovers exactly the client's api_key and the
\* base64 signature computed for that request, signatures with "+", "/"
\* or "=" included, in the query string for GET and DELETE as well as in
\* the body for POST and PUT.
C28_AuthValuesSurviveDecoding ==
    Requested({"GET", "POST", "PUT", "DELETE"})
        => /\ last.signature = HmacB64(api.secret_key, last.salt)
           /\ ValuesOf(AuthFields(sent[1]), "apikey") = {api.api_key}
           /\ ValuesOf(AuthFields(sent[1]), "signature") = {last.signature}

====
